---- MODULE Spec2Model ----
(***************************************************************************)
(* A model of package record (src/record/record.go): the payload type      *)
(* registry, the DefaultRecord fallback payload, and the dispatch          *)
(* functions unmarshalRecordPayload / blankRecordForPayloadType /          *)
(* payloadTypeForRecord.                                                   *)
(*                                                                         *)
(* Go values are modelled as follows.                                      *)
(*  - A reflect.Type is a record [ptr, name, under]: name is the name of   *)
(*    a defined type ("" for an unnamed type literal), under identifies    *)
(*    the underlying type, ptr says that the type is a pointer to the      *)
(*    type so described.                                                   *)
(*  - Record instances live in heap, a sequence indexed by address.        *)
(*  - Byte slices are references into bufs (0 is the nil slice); two       *)
(*    slices with the same reference share their backing array.            *)
(*  - A Record interface value passed to RegisterPayloadType or to        *)
(*    payloadTypeForRecord is [ptr, type]: a pointer to an object of the   *)
(*    type, or a struct value of a type with value receivers.  Neither     *)
(*    function dereferences it, so its address is not modelled.            *)
(***************************************************************************)
EXTENDS Integers, Sequences, FiniteSets, TLC

\* ------------------------------------------------------------ bounds
\* The longest byte slice a caller passes, and the number of Records and of
\* backing arrays a behaviour allocates.
MaxLen == 1
MaxRecs == 2
MaxBufs == MaxRecs + 1

Byte == {0, 1}
Tags == {"t1", "t2"}
NoTag == ""
NoErr == "nil"

RECURSIVE SeqsUpTo(_)
SeqsUpTo(n) == IF n = 0 THEN {<<>>}
               ELSE SeqsUpTo(n - 1) \cup [1..n -> Byte]
ByteSeqs == SeqsUpTo(MaxLen)

\* ------------------------------------------------------------ types
\* type DefaultRecord struct { Contents []byte }
TDefault == [ptr |-> FALSE, name |-> "DefaultRecord", under |-> "struct{Contents}"]
\* Record types defined by packages that use the registry.  Anon is an
\* unnamed struct type, a type literal such as struct{ Inner } whose methods
\* are promoted from the embedded field and have value receivers; Foo is the
\* defined type whose underlying type is Anon (type Foo struct{ Inner }),
\* with an UnmarshalRecord of its own on *Foo.
TFoo == [ptr |-> FALSE, name |-> "Foo", under |-> "struct{Inner}"]
TAnon == [ptr |-> FALSE, name |-> "", under |-> "struct{Inner}"]
NoType == [ptr |-> FALSE, name |-> "", under |-> ""]
RecordTypes == {TDefault, TFoo, TAnon}
\* Types whose methods have value receivers: a struct value of them is a Record.
ValueReceiver == {TAnon}

Kind(t) == IF t.ptr THEN "ptr" ELSE "struct"
Elem(t) == [t EXCEPT !.ptr = FALSE]
PtrTo(t) == [t EXCEPT !.ptr = TRUE]

\* reflect's assignability between two non-interface, non-channel types: the
\* types are identical, or their underlying types are identical and at
\* least one of the two is not a named type.
AssignableTo(t, u) ==
    \/ t = u
    \/ /\ t.ptr = u.ptr
       /\ t.under = u.under
       /\ (t.name = "" \/ u.name = "")

\* ------------------------------------------------------------ state
VARIABLES
    payloadTypeRegistry,  \* map[string]reflect.Type: a function on the registered tags
    heap,                 \* the Record objects allocated so far, by address
    bufs,                 \* the backing arrays of the byte slices allocated so far
    inputs,               \* the slices the caller made itself (arguments of calls)
    returned,             \* the slices MarshalRecord has handed to the caller
    op,                   \* the call made by the last step, with its arguments
    ret,                  \* what that call returned
    lastRegistered,       \* history: for each tag the type of its latest registration
    pc,                   \* concurrent callers: where each is in its call
    frame,                \* concurrent callers: the arguments, locals and results of each
    handed                \* history: the addresses blankRecordForPayloadType has returned

vars == <<payloadTypeRegistry, heap, bufs, inputs, returned, op, ret, lastRegistered,
          pc, frame, handed>>
callers == <<pc, frame, handed>>

Procs == {"p1", "p2"}

NilValue == [ptr |-> FALSE, type |-> NoType]
NoOp == [name |-> "init", tag |-> NoTag, val |-> NilValue, rec |-> 0, buf |-> 0]
NoFrame == [call |-> "none", tag |-> NoTag, buf |-> 0, val |-> NilValue,
            valueType |-> NoType, todo |-> {}, rec |-> 0,
            err |-> NoErr, rrec |-> 0, rtag |-> NoTag, found |-> FALSE]
NoRet == [rec |-> 0, err |-> NoErr, tag |-> NoTag, found |-> FALSE, buf |-> 0]

\* The zero value of a Record type: a nil Contents slice, no decoded state.
Zero(T) == [type |-> T, contents |-> 0, val |-> <<>>]

\* The bytes a slice holds.
BytesOf(b, s) == IF s = 0 THEN <<>> ELSE b[s]

\* The Record interface values a caller can pass: a pointer to an object of
\* a Record type, or a struct value of a value-receiver type.
Values == {[ptr |-> TRUE, type |-> T] : T \in RecordTypes}
          \cup {[ptr |-> FALSE, type |-> T] : T \in ValueReceiver}

\* reflect.TypeOf: the dynamic type of an interface value.
TypeOf(i) == IF i.ptr THEN PtrTo(i.type) ELSE i.type

getValueType(i) ==
    LET valueType == TypeOf(i)
    IN IF Kind(valueType) = "ptr" THEN Elem(valueType) ELSE valueType

\* ------------------------------------------------------------ Record implementations
\* make([]byte, n) and the builtin copy(dst, src).
Make(n) == [i \in 1..n |-> 0]
Copy(dst, src) == [i \in 1..Len(dst) |-> IF i <= Len(src) THEN src[i] ELSE dst[i]]

\* func (r *DefaultRecord) UnmarshalRecord(data []byte) error, preceded by
\* two faulty variants: one that keeps the caller's slice, one that copies
\* all but the last byte.
DefaultUnmarshalAliasing(h, b, r, data) ==
    [heap |-> [h EXCEPT ![r].contents = data], bufs |-> b, err |-> NoErr]

DefaultUnmarshalShort(h, b, r, data) ==
    LET n == Len(BytesOf(b, data))
        fresh == Make(n)
        copied == [i \in 1..n |-> IF i < n THEN BytesOf(b, data)[i] ELSE fresh[i]]
    IN [heap |-> [h EXCEPT ![r].contents = Len(b) + 1],
        bufs |-> Append(b, copied),
        err |-> NoErr]

DefaultUnmarshalRecord(h, b, r, data) ==
    LET fresh == Make(Len(BytesOf(b, data)))
        copied == Copy(fresh, BytesOf(b, data))
    IN [heap |-> [h EXCEPT ![r].contents = Len(b) + 1],
        bufs |-> Append(b, copied),
        err |-> NoErr]

\* func (r *DefaultRecord) MarshalRecord() ([]byte, error)
DefaultMarshalRecord(h, r) == [buf |-> h[r].contents, err |-> NoErr]

\* The Record types of other packages.  Their UnmarshalRecord is not code of
\* this package; the model lets Foo reject an empty input and an input whose
\* first byte is 0, after it has stored what it read, and lets every other
\* type accept every input.
Rejects(T, d) == T = TFoo /\ (d = <<>> \/ d[1] = 0)
ErrorOf(T, d) == IF ~Rejects(T, d) THEN NoErr
                 ELSE IF d = <<>> THEN "Foo: short input" ELSE "Foo: malformed input"

ConcreteUnmarshalRecord(h, b, r, data) ==
    [heap |-> [h EXCEPT ![r].val = BytesOf(b, data)],
     bufs |-> b,
     err |-> ErrorOf(h[r].type, BytesOf(b, data))]

\* rec.UnmarshalRecord(payloadBytes): the interface call dispatches on the
\* dynamic type of rec.
UnmarshalRecord(h, b, r, data) ==
    IF h[r].type = TDefault THEN DefaultUnmarshalRecord(h, b, r, data)
    ELSE ConcreteUnmarshalRecord(h, b, r, data)

\* The bytes a Record holds: the Contents of a DefaultRecord, the decoded
\* state of another type.
StateOf(h, b, r) == IF h[r].type = TDefault THEN BytesOf(b, h[r].contents)
                    ELSE h[r].val

\* ------------------------------------------------------------ the registry
\* RegisterPayloadType, preceded by two faulty variants: one that drops the
\* other entries, one that keeps an earlier registration of the tag.
RegisterPayloadTypeReset(reg, payloadType, prototype) ==
    [t \in {payloadType} |-> getValueType(prototype)]

RegisterPayloadTypeKeepFirst(reg, payloadType, prototype) ==
    [t \in DOMAIN reg \cup {payloadType} |->
        IF t \in DOMAIN reg THEN reg[t] ELSE getValueType(prototype)]

RegisterPayloadType(reg, payloadType, prototype) ==
    [t \in DOMAIN reg \cup {payloadType} |->
        IF t = payloadType THEN getValueType(prototype) ELSE reg[t]]

\* blankRecordForPayloadType: reflect.New(valueType) and &DefaultRecord{}
\* make a new zero-valued object at a new address.  Preceded by two faulty
\* variants: one that hands out an object it has handed out before, one
\* that fails for a tag that is not registered.
blankRecordShared(reg, h, payloadType) ==
    LET T == IF payloadType \notin DOMAIN reg THEN TDefault ELSE reg[payloadType]
        old == {a \in 1..Len(h) : h[a].type = T}
    IN IF old # {} THEN [heap |-> h, rec |-> CHOOSE a \in old : TRUE, err |-> NoErr]
       ELSE [heap |-> Append(h, Zero(T)), rec |-> Len(h) + 1, err |-> NoErr]

blankRecordNotFound(reg, h, payloadType) ==
    IF payloadType \notin DOMAIN reg
    THEN [heap |-> h, rec |-> 0, err |-> "payload type not found"]
    ELSE [heap |-> Append(h, Zero(reg[payloadType])), rec |-> Len(h) + 1, err |-> NoErr]

blankRecordForPayloadType(reg, h, payloadType) ==
    IF payloadType \notin DOMAIN reg
    THEN [heap |-> Append(h, Zero(TDefault)), rec |-> Len(h) + 1, err |-> NoErr]
    ELSE [heap |-> Append(h, Zero(reg[payloadType])), rec |-> Len(h) + 1, err |-> NoErr]

\* unmarshalRecordPayload, preceded by a faulty variant that returns the
\* Record together with the error.
unmarshalRecordPayloadKeepsRecord(reg, h, b, payloadType, payloadBytes) ==
    LET blank == blankRecordForPayloadType(reg, h, payloadType)
        um == UnmarshalRecord(blank.heap, b, blank.rec, payloadBytes)
    IN [heap |-> um.heap, bufs |-> um.bufs, rec |-> blank.rec, err |-> um.err]

unmarshalRecordPayload(reg, h, b, payloadType, payloadBytes) ==
    LET blank == blankRecordForPayloadType(reg, h, payloadType)
    IN IF blank.err # NoErr
       THEN [heap |-> blank.heap, bufs |-> b, rec |-> 0, err |-> blank.err]
       ELSE LET um == UnmarshalRecord(blank.heap, b, blank.rec, payloadBytes)
            IN IF um.err # NoErr
               THEN [heap |-> um.heap, bufs |-> um.bufs, rec |-> 0, err |-> um.err]
               ELSE [heap |-> um.heap, bufs |-> um.bufs, rec |-> blank.rec, err |-> NoErr]

\* The results payloadTypeForRecord can return: the range over the map
\* visits the entries in an unspecified order and returns at the first
\* entry whose type is assignable to the type of rec.  Preceded by two faulty
\* variants: one that compares with the pointer type of rec, one that
\* returns a key of any entry once some entry matches.
payloadTypeForRecordNoElem(reg, rec) ==
    LET valueType == TypeOf(rec)
        match == {k \in DOMAIN reg : AssignableTo(reg[k], valueType)}
    IN IF match = {} THEN {[tag |-> NoTag, found |-> FALSE]}
       ELSE {[tag |-> k, found |-> TRUE] : k \in match}

payloadTypeForRecordAnyKey(reg, rec) ==
    LET valueType == getValueType(rec)
        match == {k \in DOMAIN reg : AssignableTo(reg[k], valueType)}
    IN IF match = {} THEN {[tag |-> NoTag, found |-> FALSE]}
       ELSE {[tag |-> k, found |-> TRUE] : k \in DOMAIN reg}

payloadTypeForRecord(reg, rec) ==
    LET valueType == getValueType(rec)
        match == {k \in DOMAIN reg : AssignableTo(reg[k], valueType)}
    IN IF match = {} THEN {[tag |-> NoTag, found |-> FALSE]}
       ELSE {[tag |-> k, found |-> TRUE] : k \in match}

\* ------------------------------------------------------------ the calls
\* The caller holds one byte slice of its own making, of any contents.
Init ==
    /\ payloadTypeRegistry = <<>>
    /\ heap = <<>>
    /\ \E d \in ByteSeqs : bufs = <<d>>
    /\ inputs = {1}
    /\ returned = {}
    /\ op = NoOp
    /\ ret = NoRet
    /\ lastRegistered = <<>>
    /\ pc = [p \in Procs |-> "idle"]
    /\ frame = [p \in Procs |-> NoFrame]
    /\ handed = <<>>

Register ==
    \E payloadType \in Tags, prototype \in Values :
        /\ payloadTypeRegistry' =
               RegisterPayloadType(payloadTypeRegistry, payloadType, prototype)
        /\ lastRegistered' =
               [t \in DOMAIN lastRegistered \cup {payloadType} |->
                   IF t = payloadType THEN prototype.type ELSE lastRegistered[t]]
        /\ op' = [NoOp EXCEPT !.name = "register", !.tag = payloadType, !.val = prototype]
        /\ ret' = NoRet
        /\ UNCHANGED <<heap, bufs, inputs, returned>>
        /\ UNCHANGED callers

ResolveBlank ==
    \E payloadType \in Tags :
        /\ Len(heap) < MaxRecs
        /\ LET r == blankRecordForPayloadType(payloadTypeRegistry, heap, payloadType)
           IN /\ heap' = r.heap
              /\ ret' = [NoRet EXCEPT !.rec = r.rec, !.err = r.err]
        /\ op' = [NoOp EXCEPT !.name = "resolve", !.tag = payloadType]
        /\ UNCHANGED <<payloadTypeRegistry, bufs, inputs, returned, lastRegistered>>
        /\ UNCHANGED callers

Decode ==
    \E payloadType \in Tags, payloadBytes \in inputs \cup {0} :
        /\ Len(heap) < MaxRecs
        /\ LET r == unmarshalRecordPayload(payloadTypeRegistry, heap, bufs,
                                           payloadType, payloadBytes)
           IN /\ Len(r.bufs) <= MaxBufs
              /\ heap' = r.heap
              /\ bufs' = r.bufs
              /\ ret' = [NoRet EXCEPT !.rec = r.rec, !.err = r.err]
        /\ op' = [NoOp EXCEPT !.name = "decode", !.tag = payloadType, !.buf = payloadBytes]
        /\ UNCHANGED <<payloadTypeRegistry, inputs, returned, lastRegistered>>
        /\ UNCHANGED callers

FindTag ==
    \E rec \in Values :
        /\ \E r \in payloadTypeForRecord(payloadTypeRegistry, rec) :
              ret' = [NoRet EXCEPT !.tag = r.tag, !.found = r.found]
        /\ op' = [NoOp EXCEPT !.name = "find", !.val = rec]
        /\ UNCHANGED <<payloadTypeRegistry, heap, bufs, inputs, returned, lastRegistered>>
        /\ UNCHANGED callers

\* The caller populates a Record it holds.
Populate ==
    \E r \in 1..Len(heap), data \in inputs \cup {0} :
        /\ LET um == UnmarshalRecord(heap, bufs, r, data)
           IN /\ Len(um.bufs) <= MaxBufs
              /\ heap' = um.heap
              /\ bufs' = um.bufs
              /\ ret' = [NoRet EXCEPT !.err = um.err]
        /\ op' = [NoOp EXCEPT !.name = "populate", !.rec = r, !.buf = data]
        /\ UNCHANGED <<payloadTypeRegistry, inputs, returned, lastRegistered>>
        /\ UNCHANGED callers

\* The caller serializes a fallback payload it holds.
Serialize ==
    \E r \in 1..Len(heap) :
        /\ heap[r].type = TDefault
        /\ LET m == DefaultMarshalRecord(heap, r)
           IN /\ ret' = [NoRet EXCEPT !.buf = m.buf, !.err = m.err]
              /\ returned' = returned \cup ({m.buf} \ {0})
        /\ op' = [NoOp EXCEPT !.name = "serialize", !.rec = r]
        /\ UNCHANGED <<payloadTypeRegistry, heap, bufs, inputs, lastRegistered>>
        /\ UNCHANGED callers

\* The caller writes an element of a slice it holds: one it made, or one
\* MarshalRecord returned to it.
CallerWrite ==
    \E s \in inputs \cup returned :
        /\ \E i \in 1..Len(bufs[s]), x \in Byte :
            /\ bufs[s][i] # x
            /\ bufs' = [bufs EXCEPT ![s][i] = x]
        /\ op' = [NoOp EXCEPT !.name = "write", !.buf = s]
        /\ ret' = NoRet
        /\ UNCHANGED <<payloadTypeRegistry, heap, inputs, returned, lastRegistered>>
        /\ UNCHANGED callers

\* The registry and the dispatch functions.
Next ==
    \/ Register
    \/ ResolveBlank
    \/ Decode
    \/ FindTag

Spec == Init /\ [][Next]_vars

\* Records handed out by the registry and populated by their holders.
NextInstances ==
    \/ Register
    \/ ResolveBlank
    \/ Populate

SpecInstances == Init /\ [][NextInstances]_vars

\* The fallback payload and the slices it shares with its caller; no type is
\* registered, so every blank Record is a DefaultRecord.
NextFallback ==
    \/ ResolveBlank
    \/ Decode
    \/ Populate
    \/ Serialize
    \/ CallerWrite

SpecFallback == Init /\ [][NextFallback]_vars

\* ------------------------------------------------------------ concurrent callers
\* Registration has quiesced: the registry is any map a sequence of
\* RegisterPayloadType calls leaves, and callers run unmarshalRecordPayload
\* and payloadTypeForRecord concurrently, a statement at a time.
Registries == UNION {[S -> RecordTypes] : S \in SUBSET Tags}

\* The payloads the concurrent callers pass: an empty one, one that Foo
\* rejects and one that Foo accepts.
Payloads == {<<>>, <<0>>, <<1>>}

InitQuiesced ==
    /\ payloadTypeRegistry \in Registries
    /\ heap = <<>>
    /\ \E d \in Payloads : bufs = <<d>>
    /\ inputs = {1}
    /\ returned = {}
    /\ op = NoOp
    /\ ret = NoRet
    /\ lastRegistered = <<>>
    /\ pc = [p \in Procs |-> "idle"]
    /\ frame = [p \in Procs |-> NoFrame]
    /\ handed = <<>>

sequential == <<inputs, returned, op, ret, lastRegistered>>

\* The decode calls that have been made and have not yet allocated.
Pending == {p \in Procs : pc[p] = "blank"}

CallDecode(p) ==
    /\ pc[p] = "idle"
    /\ Len(heap) + Cardinality(Pending) < MaxRecs
    /\ \E payloadType \in Tags, payloadBytes \in inputs \cup {0} :
           frame' = [frame EXCEPT ![p] = [NoFrame EXCEPT !.call = "decode",
                                                         !.tag = payloadType,
                                                         !.buf = payloadBytes]]
    /\ pc' = [pc EXCEPT ![p] = "blank"]
    /\ UNCHANGED <<payloadTypeRegistry, heap, bufs, handed, sequential>>

\* rec, err := blankRecordForPayloadType(payloadType); if err != nil { return nil, err }
StepBlank(p) ==
    /\ pc[p] = "blank"
    /\ LET r == blankRecordForPayloadType(payloadTypeRegistry, heap, frame[p].tag)
       IN /\ heap' = r.heap
          /\ handed' = IF r.rec = 0 THEN handed ELSE Append(handed, r.rec)
          /\ frame' = [frame EXCEPT ![p].rec = r.rec, ![p].err = r.err]
          /\ pc' = [pc EXCEPT ![p] =
                        IF r.err # NoErr THEN "done"
                        ELSE IF r.heap[r.rec].type = TDefault THEN "make"
                        ELSE "unmarshal"]
    /\ UNCHANGED <<payloadTypeRegistry, bufs, sequential>>

\* r.Contents = make([]byte, len(data))
StepMake(p) ==
    /\ pc[p] = "make"
    /\ bufs' = Append(bufs, Make(Len(BytesOf(bufs, frame[p].buf))))
    /\ heap' = [heap EXCEPT ![frame[p].rec].contents = Len(bufs) + 1]
    /\ pc' = [pc EXCEPT ![p] = "copy"]
    /\ UNCHANGED <<payloadTypeRegistry, frame, handed, sequential>>

\* copy(r.Contents, data); return nil
StepCopy(p) ==
    /\ pc[p] = "copy"
    /\ LET c == heap[frame[p].rec].contents
       IN bufs' = [bufs EXCEPT ![c] = Copy(bufs[c], BytesOf(bufs, frame[p].buf))]
    /\ frame' = [frame EXCEPT ![p].err = NoErr]
    /\ pc' = [pc EXCEPT ![p] = "return"]
    /\ UNCHANGED <<payloadTypeRegistry, heap, handed, sequential>>

\* err = rec.UnmarshalRecord(payloadBytes), for a Record type of another package
StepUnmarshal(p) ==
    /\ pc[p] = "unmarshal"
    /\ LET um == ConcreteUnmarshalRecord(heap, bufs, frame[p].rec, frame[p].buf)
       IN /\ heap' = um.heap
          /\ bufs' = um.bufs
          /\ frame' = [frame EXCEPT ![p].err = um.err]
    /\ pc' = [pc EXCEPT ![p] = "return"]
    /\ UNCHANGED <<payloadTypeRegistry, handed, sequential>>

\* if err != nil { return nil, err }; return rec, nil
StepReturn(p) ==
    /\ pc[p] = "return"
    /\ frame' = [frame EXCEPT ![p].rrec = IF frame[p].err # NoErr THEN 0 ELSE frame[p].rec]
    /\ pc' = [pc EXCEPT ![p] = "done"]
    /\ UNCHANGED <<payloadTypeRegistry, heap, bufs, handed, sequential>>

\* valueType := getValueType(rec), up to the start of the range over the map
CallFind(p) ==
    /\ pc[p] = "idle"
    /\ \E rec \in Values :
           frame' = [frame EXCEPT ![p] = [NoFrame EXCEPT !.call = "find",
                                                         !.val = rec,
                                                         !.valueType = getValueType(rec),
                                                         !.todo = DOMAIN payloadTypeRegistry]]
    /\ pc' = [pc EXCEPT ![p] = "range"]
    /\ UNCHANGED <<payloadTypeRegistry, heap, bufs, handed, sequential>>

\* One iteration of the range, over an entry not yet visited, or its end.
StepRange(p) ==
    /\ pc[p] = "range"
    /\ IF frame[p].todo = {}
       THEN /\ frame' = [frame EXCEPT ![p].rtag = NoTag, ![p].found = FALSE]
            /\ pc' = [pc EXCEPT ![p] = "done"]
       ELSE \E k \in frame[p].todo :
                IF AssignableTo(payloadTypeRegistry[k], frame[p].valueType)
                THEN /\ frame' = [frame EXCEPT ![p].rtag = k, ![p].found = TRUE]
                     /\ pc' = [pc EXCEPT ![p] = "done"]
                ELSE /\ frame' = [frame EXCEPT ![p].todo = frame[p].todo \ {k}]
                     /\ pc' = pc
    /\ UNCHANGED <<payloadTypeRegistry, heap, bufs, handed, sequential>>

\* The caller takes the result and is ready for its next call.
Finish(p) ==
    /\ pc[p] = "done"
    /\ pc' = [pc EXCEPT ![p] = "idle"]
    /\ frame' = [frame EXCEPT ![p] = NoFrame]
    /\ UNCHANGED <<payloadTypeRegistry, heap, bufs, handed, sequential>>

NextConc ==
    \E p \in Procs :
        \/ CallDecode(p)
        \/ StepBlank(p)
        \/ StepMake(p)
        \/ StepCopy(p)
        \/ StepUnmarshal(p)
        \/ StepReturn(p)
        \/ CallFind(p)
        \/ StepRange(p)
        \/ Finish(p)

SpecConc == InitQuiesced /\ [][NextConc]_vars

\* ------------------------------------------------------------ properties
Registered(t) == t \in DOMAIN payloadTypeRegistry

\* The type a tag resolves to, and compatibility of a registered type with
\* the type of an instance, stated apart from the model's operators.
TypeFor(t) == IF Registered(t) THEN payloadTypeRegistry[t] ELSE TDefault
Compatible(t, u) == t = u \/ (t.under = u.under /\ (t.name = "" \/ u.name = ""))
CompatibleTags(T) == {t \in DOMAIN payloadTypeRegistry : Compatible(payloadTypeRegistry[t], T)}

\* C1: decoding a tag that is not a key of the registry returns no error and
\* a DefaultRecord whose Contents are equal, byte for byte, to the payload.
C1_UnregisteredTagDecodes ==
    (op.name = "decode" /\ ~Registered(op.tag)) =>
        /\ ret.err = NoErr
        /\ ret.rec \in 1..Len(heap)
        /\ heap[ret.rec].type = TDefault
        /\ BytesOf(bufs, heap[ret.rec].contents) = BytesOf(bufs, op.buf)

C1_Witness ==
    /\ op.name = "decode"
    /\ ~Registered(op.tag)
    /\ DOMAIN payloadTypeRegistry # {}
    /\ BytesOf(bufs, op.buf) # <<>>
    /\ ret.rec # 0

\* C3: the registry holds for each tag the type of the latest registration
\* of that tag, and resolving a registered tag returns an instance of it.
C3_LatestRegistrationWins ==
    /\ DOMAIN payloadTypeRegistry = DOMAIN lastRegistered
    /\ \A t \in DOMAIN lastRegistered : payloadTypeRegistry[t] = lastRegistered[t]
    /\ (op.name = "resolve" /\ op.tag \in DOMAIN lastRegistered) =>
           /\ ret.rec \in 1..Len(heap)
           /\ heap[ret.rec].type = lastRegistered[op.tag]

\* The only tag ever registered resolved to a Foo before and resolves to an
\* Anon now: it was registered with Foo and then with Anon.
C3_Witness ==
    /\ op.name = "resolve"
    /\ DOMAIN payloadTypeRegistry = {op.tag}
    /\ Len(heap) = 2
    /\ ret.rec = 2
    /\ heap[1].type = TFoo
    /\ heap[2].type = TAnon

\* C4 as stated: with tag T registered with type Foo, find_tag on a Foo
\* returns (T, true); find_tag on an instance whose type is registered under
\* no tag returns found = false.
C4_Original ==
    op.name = "find" =>
        /\ \A t \in DOMAIN payloadTypeRegistry :
               payloadTypeRegistry[t] = op.val.type => (ret.found /\ ret.tag = t)
        /\ (\A t \in DOMAIN payloadTypeRegistry : payloadTypeRegistry[t] # op.val.type)
               => ~ret.found

\* C4 amended: with tag T registered with type Foo, find_tag on a Foo
\* returns found = true and a tag whose registered type is compatible with
\* Foo, which is T when T is the only such tag; find_tag on an instance with
\* whose type no registered type is compatible returns found = false.
C4_ReverseLookup ==
    op.name = "find" =>
        /\ \A t \in DOMAIN payloadTypeRegistry :
               payloadTypeRegistry[t] = op.val.type =>
                   /\ ret.found
                   /\ ret.tag \in CompatibleTags(op.val.type)
                   /\ (CompatibleTags(op.val.type) = {t} => ret.tag = t)
        /\ CompatibleTags(op.val.type) = {} => (~ret.found /\ ret.tag = NoTag)

C4_Witness ==
    /\ op.name = "find"
    /\ op.val.ptr
    /\ op.val.type = TFoo
    /\ ret.found
    /\ payloadTypeRegistry[ret.tag] = TFoo
    /\ Cardinality(DOMAIN payloadTypeRegistry) = 2
    /\ CompatibleTags(TFoo) = {ret.tag}

\* C5: decode returns an error exactly when the tag is registered and the
\* registered type's UnmarshalRecord rejects the payload; it then returns
\* that error as it is and no Record.
C5_DecodeFailurePropagates ==
    op.name = "decode" =>
        LET d == BytesOf(bufs, op.buf)
        IN /\ (Registered(op.tag) /\ Rejects(payloadTypeRegistry[op.tag], d)) =>
                  /\ ret.err = ErrorOf(payloadTypeRegistry[op.tag], d)
                  /\ ret.err # NoErr
                  /\ ret.rec = 0
           /\ ret.err # NoErr =>
                  (Registered(op.tag) /\ Rejects(payloadTypeRegistry[op.tag], d))

\* A failed decode that left a partly populated Foo behind.
C5_Witness ==
    /\ op.name = "decode"
    /\ ret.err = "Foo: malformed input"
    /\ ret.rec = 0
    /\ Len(heap) > 0
    /\ heap[Len(heap)].type = TFoo
    /\ heap[Len(heap)].val # <<>>

\* C8: a step changes the registry only if it is a register step, and no
\* step removes a tag.
C8_RegistryFrame ==
    [][/\ DOMAIN payloadTypeRegistry \subseteq DOMAIN payloadTypeRegistry'
       /\ (payloadTypeRegistry' # payloadTypeRegistry => op'.name = "register")
       /\ (op'.name \in {"resolve", "decode", "find"} =>
               payloadTypeRegistry' = payloadTypeRegistry)]_vars

C8_Witness ==
    /\ op.name = "decode"
    /\ ret.err # NoErr
    /\ Cardinality(DOMAIN payloadTypeRegistry) = 2

\* C9 as stated: find_tag returns found = true exactly when some registered
\* type is compatible with the instance's type; the tag it returns is a key
\* of the registry whose type is compatible, and resolve_blank of that tag
\* yields an instance of the same concrete type as the instance.
C9_Original ==
    op.name = "find" =>
        /\ ret.found <=> CompatibleTags(op.val.type) # {}
        /\ ret.found =>
               /\ ret.tag \in CompatibleTags(op.val.type)
               /\ LET b == blankRecordForPayloadType(payloadTypeRegistry, heap, ret.tag)
                  IN b.heap[b.rec].type = op.val.type

\* C9 amended: as stated, but resolve_blank of the returned tag yields an
\* instance of a type compatible with the instance's type, not always of the
\* same type.
C9_FindTagSoundComplete ==
    op.name = "find" =>
        /\ ret.found <=> CompatibleTags(op.val.type) # {}
        /\ ret.found =>
               /\ ret.tag \in CompatibleTags(op.val.type)
               /\ LET b == blankRecordForPayloadType(payloadTypeRegistry, heap, ret.tag)
                  IN Compatible(b.heap[b.rec].type, op.val.type)

\* Two tags match the instance, one of them through an unnamed type.
C9_Witness ==
    /\ op.name = "find"
    /\ ret.found
    /\ Cardinality(CompatibleTags(op.val.type)) = 2
    /\ payloadTypeRegistry[ret.tag] # op.val.type

\* C2: resolving a registered tag returns a Record at a new address, none of
\* those handed out or populated before, holding the zero value of exactly
\* the registered type, and leaves every earlier Record as it was; populating
\* one Record changes the state of no other.
C2_FreshZeroInstance ==
    [][/\ (op'.name = "resolve" /\ Registered(op'.tag)) =>
              /\ ret'.rec = Len(heap) + 1
              /\ Len(heap') = Len(heap) + 1
              /\ heap'[ret'.rec] = [type |-> payloadTypeRegistry[op'.tag],
                                    contents |-> 0, val |-> <<>>]
              /\ \A a \in 1..Len(heap) : heap'[a] = heap[a]
       /\ op'.name = "populate" =>
              \A a \in (1..Len(heap)) \ {op'.rec} :
                  /\ heap'[a].type = heap[a].type
                  /\ StateOf(heap', bufs', a) = StateOf(heap, bufs, a)]_vars

\* Two instances of the registered type Foo, the first populated, the
\* second still zero.
C2_Witness ==
    /\ op.name = "populate"
    /\ op.rec = 1
    /\ Len(heap) = 2
    /\ heap[1].type = TFoo
    /\ heap[2].type = TFoo
    /\ \E t \in DOMAIN payloadTypeRegistry : payloadTypeRegistry[t] = TFoo
    /\ heap[1].val # <<>>
    /\ heap[2].val = <<>>

\* C6: populating a fallback payload, whatever it held, returns no error,
\* and a serialize that follows returns no error and bytes equal to those
\* passed to populate.
C6_FallbackRoundTrip ==
    [][/\ (op'.name = "populate" /\ heap[op'.rec].type = TDefault) => ret'.err = NoErr
       /\ (/\ op.name = "populate"
           /\ heap[op.rec].type = TDefault
           /\ op'.name = "serialize"
           /\ op'.rec = op.rec) =>
              /\ ret'.err = NoErr
              /\ BytesOf(bufs', ret'.buf) = BytesOf(bufs, op.buf)]_vars

\* A serialize of the one payload there is, whose Contents are the third
\* backing array: it was populated twice, the last time with a non-empty
\* input.
C6_Witness ==
    /\ op.name = "serialize"
    /\ Len(heap) = 1
    /\ Len(bufs) = 3
    /\ heap[1].contents = 3
    /\ ret.buf = 3
    /\ bufs[3] # <<>>
    /\ bufs[3] = bufs[1]

\* C10 as stated: the Contents of a fallback payload change only in a
\* populate of that payload.
C10_Original ==
    [][\A r \in 1..Len(heap) :
           (heap[r].type = TDefault
            /\ StateOf(heap', bufs', r) # StateOf(heap, bufs, r)) =>
               (op'.name = "populate" /\ op'.rec = r)]_vars

\* C10 amended: the Contents of a fallback payload change only in a populate
\* of that payload, which sets them to the bytes of its input, or in a write
\* by the caller to a slice that serialize returned for that payload; a
\* write to the input slice and a serialize change nothing.
C10_ContentsFrame ==
    [][/\ \A r \in 1..Len(heap) :
              heap[r].type = TDefault =>
                  /\ StateOf(heap', bufs', r) # StateOf(heap, bufs, r) =>
                         \/ op'.name = "populate" /\ op'.rec = r
                         \/ /\ op'.name = "write"
                            /\ op'.buf = heap[r].contents
                            /\ op'.buf \in returned
                  /\ (op'.name = "populate" /\ op'.rec = r) =>
                         StateOf(heap', bufs', r) = BytesOf(bufs, op'.buf)
       /\ op'.name = "serialize" => (heap' = heap /\ bufs' = bufs)]_vars

\* The caller has written to its input slice after a payload was populated
\* from it, and the payload still holds the bytes as they were.
C10_Witness ==
    /\ op.name = "write"
    /\ op.buf \in inputs
    /\ Len(heap) > 0
    /\ heap[1].type = TDefault
    /\ heap[1].contents # 0
    /\ bufs[heap[1].contents] # bufs[op.buf]
    /\ Len(bufs[heap[1].contents]) = Len(bufs[op.buf])
    /\ returned = {}

\* C7: with registration quiesced, every concurrent call returns what it
\* returns when run alone against the registry (a decode: the error of the
\* resolved type's UnmarshalRecord and no Record, or a Record of the resolved
\* type holding the payload; a find_tag: a tag whose type is compatible, or
\* not found when there is none), no address is handed to two calls, and no
\* step changes the registry.
C7_ResultsAsAlone ==
    /\ \A p \in Procs :
           pc[p] = "done" =>
               IF frame[p].call = "decode"
               THEN LET T == TypeFor(frame[p].tag)
                        d == BytesOf(bufs, frame[p].buf)
                    IN IF Rejects(T, d)
                       THEN frame[p].err = ErrorOf(T, d) /\ frame[p].rrec = 0
                       ELSE /\ frame[p].err = NoErr
                            /\ frame[p].rrec \in 1..Len(heap)
                            /\ heap[frame[p].rrec].type = T
                            /\ StateOf(heap, bufs, frame[p].rrec) = d
               ELSE LET match == CompatibleTags(frame[p].val.type)
                    IN /\ frame[p].found <=> match # {}
                       /\ frame[p].found => frame[p].rtag \in match
                       /\ ~frame[p].found => frame[p].rtag = NoTag
    /\ \A i, j \in 1..Len(handed) : handed[i] = handed[j] => i = j
    /\ \A p, q \in Procs :
           (p # q /\ frame[p].rec # 0 /\ frame[q].rec # 0) => frame[p].rec # frame[q].rec

C7_RegistryQuiescent == [][payloadTypeRegistry' = payloadTypeRegistry]_vars

C7_Concurrent == []C7_ResultsAsAlone /\ C7_RegistryQuiescent

\* Two decodes overlap: one caller got its Record first and is still
\* copying the payload into it when the other, which got its Record later,
\* has returned.
C7_Witness ==
    \E p, q \in Procs :
        /\ pc[p] = "copy"
        /\ pc[q] = "done"
        /\ frame[q].call = "decode"
        /\ frame[q].rrec # 0
        /\ frame[p].rec < frame[q].rec
        /\ bufs[1] # <<>>

====
